---- MODULE Spec2Model ----
(***************************************************************************)
(* Model of the digitize operator (src/operator/tensor/digitize_op.h and   *)
(* digitize_op.cc): shape inference, type inference, the monotonicity      *)
(* validator and the forward bucketization kernel with its driver.         *)
(*                                                                         *)
(* The specifications share the variables:                                 *)
(*   SpecShape    one call of DigitizeOpShape on bounded input shapes      *)
(*   SpecType     one call of DigitizeOpType on bounded type flags         *)
(*   Spec         one call of DigitizeOpForward<cpu> with an output buffer *)
(*                of its own: the validator workers, then the kernel       *)
(*                workers, interleave freely inside their Launch           *)
(*   SpecInplace  the same call under the in-place option {0, 0}: the      *)
(*                output may share the storage of data, for every pair of  *)
(*                data and output element widths                           *)
(*   SpecFresh    the call of Spec with int32 buffers, the output buffer   *)
(*                holding one of several fills before the call             *)
(*   SpecFair     the call of Spec under weak fairness of its steps        *)
(*   SpecEdges    the call of Spec with bins buffers that may be empty     *)
(*   SpecWide     a call on one element and 1 to 256 edges, the validator  *)
(*                workers taken in index order                             *)
(*   SpecKernel   the calls of Spec, calls on one element and 127 to 257   *)
(*                edges, and calls on two batches of three elements and    *)
(*                four edges; the validator workers in index order, the    *)
(*                kernel workers interleaved freely                        *)
(*   SpecRegistered  DigitizeOpShape and DigitizeOpType called with the    *)
(*                registered number of inputs                              *)
(***************************************************************************)
EXTENDS Integers, Sequences, FiniteSets, TLC

VARIABLES
    in_shapes,   \* DigitizeOpShape: *in_attrs, a sequence of TShape
    out_shapes,  \* DigitizeOpShape: *out_attrs
    shape_ret,   \* "none" before the call, then "true" or "error" (a CHECK threw)
    in_types,    \* DigitizeOpType: *in_attrs, a sequence of type flags
    out_types,   \* DigitizeOpType: *out_attrs
    type_ret,    \* "none" before the call, then "true", "false", "error" or "crash"
    right,       \* DigitizeParam::right
    otype,       \* DigitizeParam::otype
    dtype,       \* data.type_flag_ (bins has the same flag)
    data_shape,  \* inputs[0].shape_
    bins_shape,  \* inputs[1].shape_
    aliased,     \* TRUE when outputs[0] shares its storage with inputs[0]
    data_mem,    \* bytes of the storage behind inputs[0] (and outputs[0] if aliased)
    out_mem,     \* bytes of the storage behind outputs[0] when it is a buffer of its own
    bins,        \* the elements of inputs[1], 1-based here, 0-based in the code
    data0,       \* the elements of inputs[0] when the call starts
    mono,        \* the local flag of DigitizeOpForward the validator writes
    chk,         \* indices whose CheckMonotonicKernel::Map has returned
    state,       \* position of DigitizeOpForward: Idle, Validating, Computing, Failed, Done
    wpc,         \* per index, position of ForwardKernel::Map: start, loaded, done
    wdata,       \* per index, the local `data` of ForwardKernel::Map once loaded
    wreads,      \* per index, the 0-based bins indices the search dereferenced
    mono_acc,    \* accesses to the flag so far: who read it, which values were stored
    vreads,      \* per validator index, the 0-based bins indices it dereferenced
    wwrites,     \* per kernel index, the output indices it stored to, in order
    fill         \* the byte an output location holds before the call writes it

vars == <<in_shapes, out_shapes, shape_ret, in_types, out_types, type_ret,
          right, otype, dtype, data_shape, bins_shape, aliased, data_mem,
          out_mem, bins, data0, mono, chk, state, wpc, wdata, wreads,
          mono_acc, vreads, wwrites, fill>>

shapeVars == <<in_shapes, out_shapes, shape_ret>>
typeVars == <<in_types, out_types, type_ret>>
paramVars == <<right, otype>>
fwdVars == <<dtype, data_shape, bins_shape, aliased, data_mem, out_mem, bins,
             data0, mono, chk, state, wpc, wdata, wreads,
             mono_acc, vreads, wwrites, fill>>

----------------------------------------------------------------------------
(* Bounds of the model. *)

\* largest dimension of a shape drawn for shape inference
MaxDim == 2
\* largest rank of a shape drawn for shape inference
MaxRank == 3
\* largest number of elements of the bins buffer in a forward call
MaxBinsSize == 3
\* largest number of elements of the data buffer in a forward call
MaxDataSize == 2
\* element values of data and bins are drawn from 1..MaxVal
MaxVal == 3

----------------------------------------------------------------------------
(* mshadow type flags. *)

kUint8 == 3
kInt32 == 4
kInt8 == 5
kInt64 == 6
kFloat32 == 0
kFloat64 == 1

\* the enumeration of DigitizeParam::otype
OTypes == {kUint8, kInt32, kInt64, kInt8}

\* sizeof(T) of the C++ type a flag selects, in bytes
TypeSize(t) ==
    CASE t = kUint8 -> 1
      [] t = kInt8 -> 1
      [] t = kInt32 -> 4
      [] t = kFloat32 -> 4
      [] t = kInt64 -> 8
      [] t = kFloat64 -> 8

TypeSigned(t) == t # kUint8

----------------------------------------------------------------------------
(* TShape: a sequence of dimension sizes; ndim() is its length and an      *)
(* undefined shape has ndim() = 0.                                         *)

RECURSIVE ShapeSize(_)
\* TShape::Size() and TBlob::Size(): the product of the dimensions
ShapeSize(s) == IF Len(s) = 0 THEN 1 ELSE Head(s) * ShapeSize(Tail(s))

\* std::equal(bin_shape.begin(), bin_shape.end() - 1, data_shape.begin())
LeadingDimsEqual(bin_sh, data_sh) ==
    \A k \in 1..(Len(bin_sh) - 1) : bin_sh[k] = data_sh[k]

\* the loop of shape_assign over the dimensions from k on: a 0 dimension of y
\* is unknown and takes x's, a known one must agree with x's unless that is
\* 0; the loop stops at the first disagreement, y keeping what it was given
\* before
RECURSIVE shape_assign_dims(_, _, _)
shape_assign_dims(y, x, k) ==
    IF k > Len(y) THEN [ok |-> TRUE, y |-> y]
    ELSE IF y[k] = 0 THEN shape_assign_dims([y EXCEPT ![k] = x[k]], x, k + 1)
    ELSE IF y[k] # x[k] /\ x[k] # 0 THEN [ok |-> FALSE, y |-> y]
    ELSE shape_assign_dims(y, x, k + 1)

\* shape_assign of SHAPE_ASSIGN_CHECK: an unknown shape (ndim 0) takes x, a
\* shape of another rank agrees only with an unknown x, one of the same rank
\* is matched dimension by dimension
shape_assign(y, x) ==
    IF Len(y) = 0 THEN [ok |-> TRUE, y |-> x]
    ELSE IF Len(y) # Len(x) THEN [ok |-> Len(x) = 0, y |-> y]
    ELSE shape_assign_dims(y, x, 1)

\* DigitizeOpShape with the output taken from the bins shape
DigitizeOpShape_FromBins(ins, outs) ==
    IF Len(ins) # 2 \/ Len(outs) # 1 THEN [ret |-> "error", ins |-> ins, outs |-> outs]
    ELSE IF Len(ins[1]) = 0 \/ Len(ins[2]) = 0 \/ Len(ins[2]) # Len(ins[1])
         THEN [ret |-> "error", ins |-> ins, outs |-> outs]
    ELSE LET a == shape_assign(outs[1], ins[2])
         IN IF a.ok THEN [ret |-> "true", ins |-> ins, outs |-> <<a.y>>]
            ELSE [ret |-> "error", ins |-> ins, outs |-> <<a.y>>]

\* DigitizeOpShape with std::equal run over every dimension, the last included
DigitizeOpShape_AllDims(ins, outs) ==
    IF Len(ins) # 2 \/ Len(outs) # 1 THEN [ret |-> "error", ins |-> ins, outs |-> outs]
    ELSE IF Len(ins[1]) = 0 \/ Len(ins[2]) = 0 \/ ins[2] # ins[1]
         THEN [ret |-> "error", ins |-> ins, outs |-> outs]
    ELSE LET a == shape_assign(outs[1], ins[1])
         IN IF a.ok THEN [ret |-> "true", ins |-> ins, outs |-> <<a.y>>]
            ELSE [ret |-> "error", ins |-> ins, outs |-> <<a.y>>]

\* DigitizeOpShape: the value returned ("error" when a CHECK throws) and
\* the two vectors as the call leaves them
DigitizeOpShape(ins, outs) ==
    IF Len(ins) # 2 THEN [ret |-> "error", ins |-> ins, outs |-> outs]
    ELSE IF Len(outs) # 1 THEN [ret |-> "error", ins |-> ins, outs |-> outs]
    ELSE LET data_sh == ins[1]
             bin_sh == ins[2]
         IN IF ~(Len(data_sh) > 0) THEN [ret |-> "error", ins |-> ins, outs |-> outs]
            ELSE IF ~(Len(bin_sh) > 0) THEN [ret |-> "error", ins |-> ins, outs |-> outs]
            ELSE IF Len(bin_sh) # Len(data_sh)
                 THEN [ret |-> "error", ins |-> ins, outs |-> outs]
            ELSE IF ~LeadingDimsEqual(bin_sh, data_sh)
                 THEN [ret |-> "error", ins |-> ins, outs |-> outs]
            ELSE LET a == shape_assign(outs[1], data_sh)
                 IN IF a.ok THEN [ret |-> "true", ins |-> ins, outs |-> <<a.y>>]
                    ELSE [ret |-> "error", ins |-> ins, outs |-> <<a.y>>]

----------------------------------------------------------------------------
(* Type inference. *)

\* type_assign of TYPE_ASSIGN_CHECK: an unassigned flag (-1) takes x, an
\* assigned one must agree with x
type_assign(y, x) ==
    IF y = -1 THEN [ok |-> TRUE, y |-> x]
    ELSE IF y # x /\ x # -1 THEN [ok |-> FALSE, y |-> y]
    ELSE [ok |-> TRUE, y |-> y]

\* v[k] of a std::vector<int> holding the elements of v (k 0-based):
\* inside the vector its element. Past its end the behaviour is undefined
\* and what happens is past[k - size + 1]: operator[] ends the process when
\* it checks its index (fault "index"), the later read of the element ends
\* it when there is no storage to read (fault "read"), or the read finds
\* the int that lies there (fault "none")
ElementAt(v, k, past) ==
    IF k < Len(v) THEN [fault |-> "none", v |-> v[k + 1]] ELSE past[k - Len(v) + 1]

\* the vector after v[0] = x: a store past the end leaves the elements alone
AssignFirst(v, x) == IF Len(v) > 0 THEN [v EXCEPT ![1] = x] ELSE v

\* DigitizeOpType with the output type taken from the data type
DigitizeOpType_FromData(ot, ins, outs, past) ==
    LET data_type == ElementAt(ins, 0, past)
        bins_type == ElementAt(ins, 1, past)
        out0 == ElementAt(outs, 0, <<past[3]>>)
    IN IF data_type.fault = "index" THEN [ret |-> "crash", outs |-> outs]
       ELSE IF bins_type.fault = "index" THEN [ret |-> "crash", outs |-> outs]
       ELSE IF data_type.fault = "read" THEN [ret |-> "crash", outs |-> outs]
       ELSE IF data_type.v = -1 THEN [ret |-> "error", outs |-> outs]
       ELSE IF bins_type.fault = "read" THEN [ret |-> "crash", outs |-> outs]
       ELSE IF bins_type.v = -1 THEN [ret |-> "error", outs |-> outs]
       ELSE IF data_type.v # bins_type.v THEN [ret |-> "error", outs |-> outs]
       ELSE IF out0.fault # "none" THEN [ret |-> "crash", outs |-> outs]
       ELSE LET a == type_assign(out0.v, data_type.v)
            IN IF a.ok THEN [ret |-> "true", outs |-> AssignFirst(outs, a.y)]
               ELSE [ret |-> "error", outs |-> outs]

\* DigitizeOpType: the value returned ("error" when a CHECK throws, "crash"
\* when the process ends inside the call) and *out_attrs as the call leaves
\* it; ot is DigitizeParam::otype. Neither vector's size is checked: the
\* references (*in_attrs)[0] and (*in_attrs)[1] are formed first, the
\* elements read by the CHECKs after, (*out_attrs)[0] indexed and read last,
\* each inside the vector or past it; past[1] and past[2] lie behind
\* *in_attrs, past[3] behind *out_attrs
DigitizeOpType(ot, ins, outs, past) ==
    LET data_type == ElementAt(ins, 0, past)
        bins_type == ElementAt(ins, 1, past)
        out0 == ElementAt(outs, 0, <<past[3]>>)
    IN IF data_type.fault = "index" THEN [ret |-> "crash", outs |-> outs]
       ELSE IF bins_type.fault = "index" THEN [ret |-> "crash", outs |-> outs]
       ELSE IF data_type.fault = "read" THEN [ret |-> "crash", outs |-> outs]
       ELSE IF data_type.v = -1 THEN [ret |-> "error", outs |-> outs]
       ELSE IF bins_type.fault = "read" THEN [ret |-> "crash", outs |-> outs]
       ELSE IF bins_type.v = -1 THEN [ret |-> "error", outs |-> outs]
       ELSE IF data_type.v # bins_type.v THEN [ret |-> "error", outs |-> outs]
       ELSE IF ot = -1 THEN [ret |-> "false", outs |-> outs]
       ELSE IF out0.fault # "none" THEN [ret |-> "crash", outs |-> outs]
       ELSE LET a == type_assign(out0.v, ot)
            IN IF a.ok THEN [ret |-> "true", outs |-> AssignFirst(outs, a.y)]
               ELSE [ret |-> "error", outs |-> outs]

----------------------------------------------------------------------------
(* Buffers. A TBlob's storage is a sequence of bytes; dptr<T>()[i] is the  *)
(* sizeof(T) bytes from offset i * sizeof(T), little-endian, two's         *)
(* complement for the signed types.                                        *)

RECURSIVE ToBytes(_, _)
\* the low w bytes of the non-negative integer v
ToBytes(v, w) == IF w = 0 THEN <<>> ELSE <<v % 256>> \o ToBytes(v \div 256, w - 1)

RECURSIVE UnsignedOf(_)
UnsignedOf(bs) == IF Len(bs) = 0 THEN 0 ELSE Head(bs) + 256 * UnsignedOf(Tail(bs))

\* the value of type t the bytes bs hold
FromBytes(bs, t) ==
    IF TypeSigned(t) /\ bs[Len(bs)] >= 128
    THEN -(UnsignedOf([k \in 1..Len(bs) |-> 255 - bs[k]]) + 1)
    ELSE UnsignedOf(bs)

\* p[i] for p = dptr<T>() of the storage mem, T selected by the flag t
LoadElem(mem, i, t) ==
    FromBytes(SubSeq(mem, i * TypeSize(t) + 1, (i + 1) * TypeSize(t)), t)

\* a store that writes the value's first byte and leaves the others as they were
StoreElem_LowByte(mem, i, bs) ==
    [k \in 1..Len(mem) |-> IF k = i * Len(bs) + 1 THEN bs[1] ELSE mem[k]]

\* the storage after p[i] = the value whose bytes are bs
StoreElem(mem, i, bs) ==
    [k \in 1..Len(mem) |->
        IF k > i * Len(bs) /\ k <= (i + 1) * Len(bs) THEN bs[k - i * Len(bs)] ELSE mem[k]]

\* a conversion that stops at the largest value of a one-byte output type
static_cast_OType_Saturate(index, ot) ==
    LET top == IF TypeSigned(ot) THEN 127 ELSE 255
    IN ToBytes(IF TypeSize(ot) = 1 /\ index > top THEN top ELSE index, TypeSize(ot))

\* static_cast<OType>(index) for an index held in a uint64_t, as the bytes stored
static_cast_OType(index, ot) == ToBytes(index, TypeSize(ot))

RECURSIVE Flatten(_)
Flatten(ss) == IF Len(ss) = 0 THEN <<>> ELSE Head(ss) \o Flatten(Tail(ss))

\* the storage holding the elements vals of type t
Encode(vals, t) == Flatten([i \in 1..Len(vals) |-> ToBytes(vals[i], TypeSize(t))])

----------------------------------------------------------------------------
(* The binary searches of <algorithm>, over b[first .. first + len) with   *)
(* 0-based positions; reads collects the positions dereferenced. The       *)
(* result is the position found and the positions read.                    *)

RECURSIVE lower_bound_Le(_, _, _, _, _)
\* lower_bound comparing with <= where the library compares with <
lower_bound_Le(b, first, len, val, reads) ==
    IF len > 0
    THEN LET half == len \div 2
             middle == first + half
         IN IF b[middle + 1] <= val
            THEN lower_bound_Le(b, middle + 1, len - half - 1, val, reads \cup {middle})
            ELSE lower_bound_Le(b, first, half, val, reads \cup {middle})
    ELSE [pos |-> first, reads |-> reads]

RECURSIVE upper_bound_Le(_, _, _, _, _)
\* upper_bound comparing with <= where the library compares with <
upper_bound_Le(b, first, len, val, reads) ==
    IF len > 0
    THEN LET half == len \div 2
             middle == first + half
         IN IF val <= b[middle + 1]
            THEN upper_bound_Le(b, first, half, val, reads \cup {middle})
            ELSE upper_bound_Le(b, middle + 1, len - half - 1, val, reads \cup {middle})
    ELSE [pos |-> first, reads |-> reads]

RECURSIVE lower_bound(_, _, _, _, _)
lower_bound(b, first, len, val, reads) ==
    IF len > 0
    THEN LET half == len \div 2
             middle == first + half
         IN IF b[middle + 1] < val
            THEN lower_bound(b, middle + 1, len - half - 1, val, reads \cup {middle})
            ELSE lower_bound(b, first, half, val, reads \cup {middle})
    ELSE [pos |-> first, reads |-> reads]

RECURSIVE upper_bound(_, _, _, _, _)
upper_bound(b, first, len, val, reads) ==
    IF len > 0
    THEN LET half == len \div 2
             middle == first + half
         IN IF val < b[middle + 1]
            THEN upper_bound(b, first, half, val, reads \cup {middle})
            ELSE upper_bound(b, middle + 1, len - half - 1, val, reads \cup {middle})
    ELSE [pos |-> first, reads |-> reads]

----------------------------------------------------------------------------
(* ForwardKernel<cpu>::Map, after `data` is loaded: the index computed and *)
(* the bins positions read for element i.                                  *)

\* the search with the two bounds exchanged
KernelSearch_Swapped(b, begin, bins_length, val, r) ==
    IF r THEN upper_bound(b, begin, bins_length, val, {})
    ELSE lower_bound(b, begin, bins_length, val, {})

\* right ? std::lower_bound(begin, end, data) : std::upper_bound(begin, end, data)
KernelSearch(b, begin, bins_length, val, r) ==
    IF r THEN lower_bound(b, begin, bins_length, val, {})
    ELSE upper_bound(b, begin, bins_length, val, {})

\* the segment start taken as the start of the whole bins buffer
SegmentBegin_First(i, batch_size, bins_length) == 0

\* begin - bins = bins_length * batch_index, batch_index = i / batch_size
SegmentBegin(i, batch_size, bins_length) == bins_length * (i \div batch_size)

\* index = distance(begin, elem) and the positions read
\* positions counted from one
KernelIndex_FromOne(b, i, val, batch_size, bins_length, r) ==
    LET begin == SegmentBegin(i, batch_size, bins_length)
        found == KernelSearch(b, begin, bins_length, val, r)
    IN [index |-> found.pos - begin + 1, reads |-> found.reads]

KernelIndex(b, i, val, batch_size, bins_length, r) ==
    LET begin == SegmentBegin(i, batch_size, bins_length)
        found == KernelSearch(b, begin, bins_length, val, r)
    IN [index |-> found.pos - begin, reads |-> found.reads]

----------------------------------------------------------------------------
(* CheckMonotonicKernel::Map for index i: TRUE when it stores false in     *)
(* *mono.                                                                  *)

\* the check without the segment-boundary return
CheckMonotonicKernel_NoSkip(b, i, bins_length) ==
    i + 1 < Len(b) /\ b[i + 1] >= b[i + 2]

CheckMonotonicKernel(b, i, bins_length) ==
    IF (i + 1) % bins_length = 0 THEN FALSE
    ELSE b[i + 1] >= b[i + 2]

\* the comparison made at every index, the last one of a segment included
CheckMonotonicReads_NoSkip(i, bins_length) == {i, i + 1}

\* the 0-based indices of bins CheckMonotonicKernel::Map(i, ...) dereferences
CheckMonotonicReads(i, bins_length) ==
    IF (i + 1) % bins_length = 0 THEN {} ELSE {i, i + 1}

\* the flag assigned the outcome of the comparison, whichever it is
MonoStore_Assign(violated) == {~violated}

\* the values CheckMonotonicKernel::Map stores to *mono: false on a violation,
\* nothing otherwise
MonoStore(violated) == IF violated THEN {FALSE} ELSE {}

----------------------------------------------------------------------------
(* DigitizeOpForward<cpu>. *)

\* bins.shape_[bins.ndim() - 1]
bins_length == bins_shape[Len(bins_shape)]
\* data.shape_[data.ndim() - 1]
batch_size == data_shape[Len(data_shape)]
\* the N of the validator's Launch: bins.Size()
BinsSize == ShapeSize(bins_shape)
\* the N of the kernel's Launch: outputs[0].Size(), the output having data's shape
OutSize == ShapeSize(data_shape)

\* the storage outputs[0].dptr<OType>() points into
OutStorage == IF aliased THEN data_mem ELSE out_mem

\* the storage chosen without regard to the output's own buffer
StoreTarget_Input(al) == "data"

\* the storage out_data points into: that of inputs[0] when the output shares
\* it under the in-place option, else the output's own
StoreTarget(al) == IF al THEN "data" ELSE "out"

\* every worker of a batch writing the batch's first element
OutIndex_Batch(i, n) == (i \div n) * n

\* the element of out_data that ForwardKernel::Map(i, ...) assigns
OutIndex(i, n) == i

\* a Launch that returns without waiting for its workers
AllReturned_NoJoin(c, n) == TRUE

\* a Launch that waits for one worker more than it started
AllReturned_OneMore(c, n) == c = 0..n

\* Launch(s, N, ...) returns when the workers of all N indices have returned
AllReturned(c, n) == c = 0..(n - 1)

\* CHECK(mono) let through whatever the flag holds
CHECK_mono_Ignored(m) == TRUE

\* CHECK(mono): TRUE when the call goes on, FALSE when it throws
CHECK_mono(m) == m

\* one CheckMonotonicKernel::Map(i, bins_length, bins, &mono) of the first Launch
CheckMonotonic(i) ==
    /\ state = "Validating"
    /\ i \in (0..(BinsSize - 1)) \ chk
    /\ LET st == MonoStore(CheckMonotonicKernel(bins, i, bins_length))
       IN /\ mono' = IF st = {} THEN mono ELSE CHOOSE v \in st : TRUE
          /\ mono_acc' = [mono_acc EXCEPT !.written = @ \cup st]
    /\ vreads' = [vreads EXCEPT ![i] = CheckMonotonicReads(i, bins_length)]
    /\ chk' = chk \cup {i}
    /\ UNCHANGED <<shapeVars, typeVars, paramVars, dtype, data_shape, bins_shape,
                   aliased, data_mem, out_mem, bins, data0, state, wpc, wdata, wreads,
                   wwrites, fill>>

\* the first Launch has returned: CHECK(mono), then the second Launch starts
Validated ==
    /\ state = "Validating"
    /\ AllReturned(chk, BinsSize)
    /\ state' = IF CHECK_mono(mono) THEN "Computing" ELSE "Failed"
    /\ mono_acc' = [mono_acc EXCEPT !.readers = @ \cup {"driver"}]
    /\ UNCHANGED <<shapeVars, typeVars, paramVars, dtype, data_shape, bins_shape,
                   aliased, data_mem, out_mem, bins, data0, mono, chk, wpc, wdata, wreads,
                   vreads, wwrites, fill>>

\* ForwardKernel<cpu>::Map(i, ...): const auto data = in_data[i]
KernelLoad(i) ==
    /\ state = "Computing"
    /\ i \in 0..(OutSize - 1)
    /\ wpc[i] = "start"
    /\ wdata' = [wdata EXCEPT ![i] = LoadElem(data_mem, i, dtype)]
    /\ wpc' = [wpc EXCEPT ![i] = "loaded"]
    /\ UNCHANGED <<shapeVars, typeVars, paramVars, dtype, data_shape, bins_shape,
                   aliased, data_mem, out_mem, bins, data0, mono, chk, state, wreads,
                   mono_acc, vreads, wwrites, fill>>

\* ForwardKernel<cpu>::Map(i, ...): the search and out_data[i] = static_cast<OType>(index)
KernelStore(i) ==
    /\ state = "Computing"
    /\ i \in 0..(OutSize - 1)
    /\ wpc[i] = "loaded"
    /\ LET k == KernelIndex(bins, i, wdata[i], batch_size, bins_length, right)
           bs == static_cast_OType(k.index, otype)
           o == OutIndex(i, batch_size)
       IN /\ wreads' = [wreads EXCEPT ![i] = k.reads]
          /\ wwrites' = [wwrites EXCEPT ![i] = Append(@, o)]
          /\ IF StoreTarget(aliased) = "data"
             THEN /\ data_mem' = StoreElem(data_mem, o, bs)
                  /\ out_mem' = out_mem
             ELSE /\ out_mem' = StoreElem(out_mem, o, bs)
                  /\ data_mem' = data_mem
    /\ wpc' = [wpc EXCEPT ![i] = "done"]
    /\ UNCHANGED <<shapeVars, typeVars, paramVars, dtype, data_shape, bins_shape,
                   aliased, bins, data0, mono, chk, state, wdata, mono_acc, vreads,
                   fill>>

\* the second Launch has returned and DigitizeOpForward returns
Computed ==
    /\ state = "Computing"
    /\ \A i \in 0..(OutSize - 1) : wpc[i] = "done"
    /\ state' = "Done"
    /\ UNCHANGED <<shapeVars, typeVars, paramVars, dtype, data_shape, bins_shape,
                   aliased, data_mem, out_mem, bins, data0, mono, chk, wpc, wdata, wreads,
                   mono_acc, vreads, wwrites, fill>>

----------------------------------------------------------------------------
(* The inputs of a forward call. *)

Values == 1..MaxVal

\* the (data type, output type) pairs drawn for a call with its own output buffer
FwdTypePairs == {<<kInt32, kInt32>>, <<kInt8, kUint8>>, <<kInt32, kInt64>>, <<kInt8, kInt8>>}

\* data and bins element types drawn for a call that may run in place
InplaceDTypes == {kInt32, kInt8}

\* data and bins shapes that passed shape inference: rank 1, or rank 2 with
\* the same leading dimension
FwdShapePairs ==
    {<<<<n>>, <<l>>>> : n \in 1..MaxDataSize, l \in 1..MaxBinsSize}
    \cup {sp \in {<<<<b, n>>, <<b, l>>>> : b \in 2..MaxDataSize, n \in 1..MaxDataSize,
                                         l \in 1..MaxBinsSize} :
            ShapeSize(sp[1]) <= MaxDataSize /\ ShapeSize(sp[2]) <= MaxBinsSize}

\* the byte every location of a buffer not yet written holds
Unwritten(n) == [k \in 1..n |-> fill]

IdleShape == in_shapes = <<>> /\ out_shapes = <<>> /\ shape_ret = "none"
IdleType == in_types = <<>> /\ out_types = <<>> /\ type_ret = "none"
IdleForward ==
    /\ dtype = kInt32 /\ data_shape = <<>> /\ bins_shape = <<>> /\ aliased = FALSE
    /\ data_mem = <<>> /\ out_mem = <<>> /\ bins = <<>> /\ data0 = <<>>
    /\ mono = TRUE /\ chk = {} /\ state = "Idle"
    /\ wpc = <<>> /\ wdata = <<>> /\ wreads = <<>>
    /\ mono_acc = [readers |-> {}, written |-> {}]
    /\ vreads = <<>> /\ wwrites = <<>> /\ fill = 255

\* the storage behind inputs[0] when the call starts: the data, and when the
\* output shares it and is larger, the rest of the shared storage
PreCallDataMem ==
    LET inb == OutSize * TypeSize(dtype)
        outb == OutSize * TypeSize(otype)
    IN Encode(data0, dtype)
         \o (IF aliased /\ outb > inb THEN Unwritten(outb - inb) ELSE <<>>)

\* the storage of an output buffer of its own when the call starts
PreCallOutMem == IF aliased THEN <<>> ELSE Unwritten(OutSize * TypeSize(otype))

\* the elements of bins and data, drawn from Values
SmallElements ==
    /\ bins \in [1..ShapeSize(bins_shape) -> Values]
    /\ data0 \in [1..ShapeSize(data_shape) -> Values]

\* DigitizeOpForward is entered with the buffers given: mono = true and no
\* worker has run
Enter ==
    /\ IdleShape /\ IdleType
    /\ data_mem = PreCallDataMem
    /\ out_mem = PreCallOutMem
    /\ wpc = [i \in 0..(OutSize - 1) |-> "start"]
    /\ wdata = [i \in 0..(OutSize - 1) |-> 0]
    /\ wreads = [i \in 0..(OutSize - 1) |-> {}]
    /\ wwrites = [i \in 0..(OutSize - 1) |-> <<>>]
    /\ vreads = [i \in 0..(BinsSize - 1) |-> {}]
    /\ mono_acc = [readers |-> {}, written |-> {}]
    /\ mono = TRUE
    /\ chk = {}
    /\ state = "Validating"

\* a call with an output buffer of its own
Init ==
    /\ right \in BOOLEAN
    /\ \E tp \in FwdTypePairs : dtype = tp[1] /\ otype = tp[2]
    /\ aliased = FALSE
    /\ fill = 255
    /\ \E sp \in FwdShapePairs : data_shape = sp[1] /\ bins_shape = sp[2]
    /\ SmallElements
    /\ Enter

\* a call under the in-place option {0, 0}: the output may share data's storage
InitInplace ==
    /\ right \in BOOLEAN
    /\ dtype \in InplaceDTypes
    /\ otype \in OTypes
    /\ aliased \in BOOLEAN
    /\ fill = 255
    /\ \E sp \in FwdShapePairs :
         /\ ShapeSize(sp[2]) <= MaxDataSize
         /\ data_shape = sp[1] /\ bins_shape = sp[2]
    /\ SmallElements
    /\ Enter

Next ==
    \/ \E i \in 0..(MaxBinsSize - 1) : CheckMonotonic(i)
    \/ Validated
    \/ \E i \in 0..(MaxDataSize - 1) : KernelLoad(i)
    \/ \E i \in 0..(MaxDataSize - 1) : KernelStore(i)
    \/ Computed

Spec == Init /\ [][Next]_vars

SpecInplace == InitInplace /\ [][Next]_vars

\* a call with an output buffer of its own, int32 data and one-byte outputs
InitFair ==
    /\ right \in BOOLEAN
    /\ dtype = kInt32 /\ otype = kUint8
    /\ aliased = FALSE
    /\ fill = 255
    /\ \E sp \in FwdShapePairs : data_shape = sp[1] /\ bins_shape = sp[2]
    /\ SmallElements
    /\ Enter

\* that call when every Launch runs its workers to their end: a
\* step that stays possible is eventually taken
SpecFair == InitFair /\ [][Next]_vars /\ WF_vars(Next)

\* bytes a freshly allocated output buffer may hold in every location
FillBytes == {0, 255}

\* a call with a fresh output buffer of its own, holding whatever it holds
InitFresh ==
    /\ right \in BOOLEAN
    /\ dtype = kInt32 /\ otype = kInt32
    /\ aliased = FALSE
    /\ fill \in FillBytes
    /\ \E sp \in FwdShapePairs : data_shape = sp[1] /\ bins_shape = sp[2]
    /\ SmallElements
    /\ Enter

SpecFresh == InitFresh /\ [][Next]_vars

\* data and bins shapes whose bins buffer has no element
EmptyBinsShapePairs ==
    {<<<<n>>, <<0>>>> : n \in 1..MaxDataSize}
    \cup {sp \in {<<<<b, n>>, <<b, 0>>>> : b \in 2..MaxDataSize, n \in 1..MaxDataSize} :
            ShapeSize(sp[1]) <= MaxDataSize}

\* a call with an output buffer of its own whose bins may be empty
InitEdges ==
    /\ right \in BOOLEAN
    /\ dtype = kInt32 /\ otype = kInt32
    /\ aliased = FALSE
    /\ fill = 255
    /\ \E sp \in FwdShapePairs \cup EmptyBinsShapePairs :
         data_shape = sp[1] /\ bins_shape = sp[2]
    /\ SmallElements
    /\ Enter

SpecEdges == InitEdges /\ [][Next]_vars

----------------------------------------------------------------------------
(* A call over many edges: bins_length at and around the largest values of *)
(* the one-byte output types. Of the schedules of the validator's Launch   *)
(* this specification follows one, the workers taken in index order, each  *)
(* Map call a step of its own.                                             *)

\* the next CheckMonotonicKernel::Map of the first Launch when it takes the
\* indices in order: that of the lowest index not yet run
CheckMonotonicInOrder ==
    LET i == Cardinality(chk)
    IN /\ chk = 0..(i - 1)
       /\ CheckMonotonic(i)

\* bins_length at and next to the largest values of int8 and uint8
WideLengths == {1, 127, 128, 255, 256}

\* a call on one data element and the edges 1, 2, .., bins_length, the value
\* ranging from below the first edge to above the last
InitWide ==
    /\ right \in BOOLEAN
    /\ dtype = kInt32
    /\ otype \in OTypes
    /\ aliased = FALSE
    /\ fill = 255
    /\ data_shape = <<1>>
    /\ \E l \in WideLengths :
         /\ bins_shape = <<l>>
         /\ bins = [j \in 1..l |-> j]
         /\ data0 \in [1..1 -> 0..(l + 1)]
    /\ Enter

NextWide ==
    \/ CheckMonotonicInOrder
    \/ Validated
    \/ \E i \in 0..(MaxDataSize - 1) : KernelLoad(i)
    \/ \E i \in 0..(MaxDataSize - 1) : KernelStore(i)
    \/ Computed

SpecWide == InitWide /\ [][NextWide]_vars

----------------------------------------------------------------------------
(* The forward call over buffers small and large: the calls of Init, calls *)
(* on the edges 1..bins_length with bins_length at and past the largest    *)
(* values of the one-byte output types, and calls on two batches of three  *)
(* elements and four edges each. The validator's workers are taken in      *)
(* index order, the kernel's workers in every order.                       *)

\* bins_length next to, at and past the largest values of int8 and uint8
KernelLengths == {127, 128, 129, 255, 256, 257}

\* data values below, on and above the first and the last of the edges
\* 1..l, and one on an edge between
KernelProbes(l) == {0, 1, 100, l - 1, l, l + 1}

\* a call on one data element and the edges 1, 2, .., bins_length
InitLong ==
    /\ right \in BOOLEAN
    /\ dtype = kInt32
    /\ otype \in OTypes
    /\ aliased = FALSE
    /\ fill = 255
    /\ data_shape = <<1>>
    /\ \E l \in KernelLengths :
         /\ bins_shape = <<l>>
         /\ bins = [j \in 1..l |-> j]
         /\ data0 \in [1..1 -> KernelProbes(l)]
    /\ Enter

\* rows of four increasing edges and rows of three data values around them
BatchBinsRows == {<<1, 2, 3, 4>>, <<2, 4, 6, 8>>, <<5, 6, 7, 9>>}
BatchDataRows == {<<0, 2, 5>>, <<4, 1, 9>>, <<6, 3, 7>>}

\* a call on data of shape (2,3) and bins of shape (2,4), each row of bins
\* increasing
InitBatches ==
    /\ right \in BOOLEAN
    /\ dtype = kInt32
    /\ otype \in {kUint8, kInt32}
    /\ aliased = FALSE
    /\ fill = 255
    /\ data_shape = <<2, 3>>
    /\ bins_shape = <<2, 4>>
    /\ \E r1 \in BatchBinsRows, r2 \in BatchBinsRows : bins = r1 \o r2
    /\ \E d1 \in BatchDataRows, d2 \in BatchDataRows : data0 = d1 \o d2
    /\ Enter

InitKernel == Init \/ InitLong \/ InitBatches

NextKernel ==
    \/ CheckMonotonicInOrder
    \/ Validated
    \/ \E i \in 0..(OutSize - 1) : KernelLoad(i)
    \/ \E i \in 0..(OutSize - 1) : KernelStore(i)
    \/ Computed

SpecKernel == InitKernel /\ [][NextKernel]_vars

----------------------------------------------------------------------------
(* Shape inference: one call of DigitizeOpShape. *)

\* the shapes of the scenarios the specification names
ExampleShapes == {<<4, 5>>, <<3, 6>>, <<4, 6>>}

\* shapes of rank 0 (undefined) to MaxRank, every dimension known (1 to
\* MaxDim) or not yet known (0)
ShapeSet == UNION {[1..r -> 0..MaxDim] : r \in 0..MaxRank} \cup ExampleShapes

\* the shape sh with its first dimension not yet known (0)
FirstDimUnknown(sh) == [k \in 1..Len(sh) |-> IF k = 1 THEN 0 ELSE sh[k]]

\* the shape sh with every dimension it leaves unknown (0) set to d
UnknownDimsAs(sh, d) == [k \in 1..Len(sh) |-> IF sh[k] = 0 THEN d ELSE sh[k]]

\* the call is about to be made: two input shapes, and an output shape that
\* is unknown or was fixed earlier to one of the two, wholly, but for its
\* first dimension, or with the dimensions data leaves unknown filled in
InitShape ==
    /\ in_shapes \in {<<d, b>> : d \in ShapeSet, b \in ShapeSet}
    /\ out_shapes \in {<<o>> : o \in {<<>>, in_shapes[1], in_shapes[2],
                                       FirstDimUnknown(in_shapes[1]),
                                       FirstDimUnknown(in_shapes[2])}
                                      \cup {UnknownDimsAs(in_shapes[1], d) : d \in 1..MaxDim}}
    /\ shape_ret = "none"
    /\ IdleType /\ IdleForward
    /\ right = FALSE /\ otype = kInt32

InferShape ==
    /\ shape_ret = "none"
    /\ LET r == DigitizeOpShape(in_shapes, out_shapes)
       IN /\ shape_ret' = r.ret
          /\ in_shapes' = r.ins
          /\ out_shapes' = r.outs
    /\ UNCHANGED <<typeVars, paramVars, fwdVars>>

NextShape == InferShape

SpecShape == InitShape /\ [][NextShape]_vars

\* NNVM_REGISTER_OP(digitize) .set_num_inputs(1)
num_inputs == 1


----------------------------------------------------------------------------
(* Type inference: one call of DigitizeOpType. *)

\* the type flags an input can carry: undefined (-1) or an element type
TypeFlags == {-1, kFloat32, kFloat64, kUint8, kInt32, kInt8, kInt64}

InitType ==
    /\ in_types \in {<<d, b>> : d \in TypeFlags, b \in TypeFlags}
    /\ out_types \in {<<o>> : o \in {-1} \cup OTypes}
    /\ type_ret = "none"
    /\ otype \in OTypes
    /\ right = FALSE
    /\ IdleShape /\ IdleForward

\* the ints a read past the end of a vector may find: a type flag or not
PastInts == TypeFlags \cup {7}

\* what an index past the end of a vector meets: an operator[] that checks
\* it, no storage to read, or one of those ints
PastReads ==
    {[fault |-> "none", v |-> n] : n \in PastInts}
    \cup {[fault |-> "index", v |-> 0], [fault |-> "read", v |-> 0]}

\* what lies at the k-th place behind the n elements of a vector the call
\* indexes the first m places of: drawn where the call can reach it
PastOf(n, m, k) == IF n + k <= m THEN PastReads ELSE {[fault |-> "read", v |-> 0]}

\* one call of DigitizeOpType; what lies past the vectors is anything
InferType ==
    /\ type_ret = "none"
    /\ \E p1 \in PastOf(Len(in_types), 2, 1), p2 \in PastOf(Len(in_types), 2, 2),
          p3 \in PastOf(Len(out_types), 1, 1) :
         LET r == DigitizeOpType(otype, in_types, out_types, <<p1, p2, p3>>)
         IN /\ type_ret' = r.ret
            /\ out_types' = r.outs
    /\ UNCHANGED <<in_types, shapeVars, paramVars, fwdVars>>

NextType == InferType

SpecType == InitType /\ [][NextType]_vars

----------------------------------------------------------------------------
(* Inference as the host runs it for the registered operator. *)

\* the two calls about to be made: one input shape and one input type per
\* registered input, an output shape unknown, that of the data, wholly or
\* but for its first dimension, or another, an output type unassigned or
\* assigned
InitRegistered ==
    /\ in_shapes \in [1..num_inputs -> ShapeSet]
    /\ out_shapes \in {<<o>> : o \in {<<>>, in_shapes[1], FirstDimUnknown(in_shapes[1])}
                                      \cup ExampleShapes}
    /\ shape_ret = "none"
    /\ in_types \in [1..num_inputs -> TypeFlags]
    /\ out_types \in {<<o>> : o \in {-1} \cup OTypes}
    /\ type_ret = "none"
    /\ IdleForward
    /\ right = FALSE /\ otype = kInt32

NextRegistered == InferShape \/ InferType

SpecRegistered == InitRegistered /\ [][NextRegistered]_vars

----------------------------------------------------------------------------
(* Properties of shape inference (SpecShape). *)

\* the four conditions under which the shape rule is specified to fail
ShapeRuleFails(d, b) ==
    \/ Len(d) = 0
    \/ Len(b) = 0
    \/ Len(d) # Len(b)
    \/ \E k \in 1..(Len(d) - 1) : d[k] # b[k]

\* C7: called with an output shape not yet known, DigitizeOpShape throws
\* exactly when data has rank 0, bins has rank 0, the ranks differ or one of
\* the first rank-1 dimensions differs, and returns true otherwise whatever
\* the last dimensions are; (4,5) with (3,6) throws, (4,5) with (4,6) succeeds.
C7_ShapeErrors ==
    [][(shape_ret = "none" /\ shape_ret' # "none" /\ out_shapes = <<<<>>>>) =>
         /\ shape_ret' = (IF ShapeRuleFails(in_shapes[1], in_shapes[2])
                          THEN "error" ELSE "true")
         /\ (in_shapes = <<<<4, 5>>, <<3, 6>>>> => shape_ret' = "error")
         /\ (in_shapes = <<<<4, 5>>, <<4, 6>>>> => shape_ret' = "true")]_vars

\* the shape-mismatch scenario has been run and has thrown
C7_Witness ==
    /\ shape_ret = "error"
    /\ in_shapes = <<<<4, 5>>, <<3, 6>>>>
    /\ out_shapes = <<<<>>>>

AllDimsKnown(sh) == \A k \in 1..Len(sh) : sh[k] # 0

----------------------------------------------------------------------------
(* Properties of type inference (SpecType). *)

\* C9: DigitizeOpType throws when the data type is undefined, when the bins
\* type is undefined or when the two differ (float32 with float64); otherwise,
\* with the output type unassigned, it returns true and the output type is
\* the configured otype, whatever the input type.
C9_TypeRule ==
    [][(type_ret = "none" /\ type_ret' # "none") =>
         /\ (in_types[1] = -1 \/ in_types[2] = -1 \/ in_types[1] # in_types[2])
              => type_ret' = "error"
         /\ (in_types = <<kFloat32, kFloat64>> => type_ret' = "error")
         /\ (in_types[1] # -1 /\ in_types[1] = in_types[2] /\ out_types = <<-1>>)
              => (type_ret' = "true" /\ out_types' = <<otype>>)]_vars

\* float32 data with float64 bins has been rejected
C9_Witness ==
    /\ type_ret = "error"
    /\ in_types = <<kFloat32, kFloat64>>

----------------------------------------------------------------------------
(* Properties of the forward call (Spec, SpecInplace). *)

\* outputs[0].dptr<OType>()[i] as a number
OutputAt(i) == LoadElem(OutStorage, i, otype)

\* the batch element i of data belongs to, and the number of batches
BatchOf(i) == i \div batch_size
NumBatches == OutSize \div batch_size

\* the 0-based positions in bins of the segment of batch b
SegmentPositions(b) == (b * bins_length)..((b + 1) * bins_length - 1)

\* how many edges of batch b's segment lie below v (strictly, or not)
EdgesBelow(b, v) == Cardinality({j \in SegmentPositions(b) : bins[j + 1] < v})
EdgesBelowOrEqual(b, v) == Cardinality({j \in SegmentPositions(b) : bins[j + 1] <= v})

\* every batch segment of bins is strictly increasing
SegmentsIncreasing ==
    \A b \in 0..((BinsSize \div bins_length) - 1) :
        \A k \in 0..(bins_length - 2) :
            bins[b * bins_length + k + 1] < bins[b * bins_length + k + 2]

\* the number of edges of i's batch segment the claim counts for data[i]
EdgeCount(i) ==
    IF right THEN EdgesBelow(BatchOf(i), data0[i + 1])
    ELSE EdgesBelowOrEqual(BatchOf(i), data0[i + 1])

\* n is a value of the output type ot (every index reached here is below
\* 2^31, so only the one-byte types can fall short)
FitsOType(n, ot) ==
    TypeSize(ot) > 1 \/ n <= (IF TypeSigned(ot) THEN 127 ELSE 255)

\* C1 amended: for strictly increasing segments, once the call has completed
\* every output[i] is the number of edges e of i's batch segment with
\* e < data[i] when right, and with e <= data[i] when not right, whenever
\* that number is a value of the output type (at most 127 for int8, 255 for
\* uint8).
C1_OutputCountsEdgesIfFits ==
    (state = "Done" /\ SegmentsIncreasing) =>
        \A i \in 0..(OutSize - 1) :
            FitsOType(EdgeCount(i), otype) => OutputAt(i) = EdgeCount(i)

\* C1 as stated: for strictly increasing segments, once the call has
\* completed every output[i] is the number of edges e of i's batch segment
\* with e < data[i] when right, and with e <= data[i] when not right.
C1_OutputCountsEdges ==
    (state = "Done" /\ SegmentsIncreasing) =>
        \A i \in 0..(OutSize - 1) :
            OutputAt(i) = (IF right THEN EdgesBelow(BatchOf(i), data0[i + 1])
                           ELSE EdgesBelowOrEqual(BatchOf(i), data0[i + 1]))

\* a completed call on two batches whose rows of edges differ: an element of
\* the second row of data has the count of the second row of bins, which is
\* not its count in the first
C1_Witness ==
    /\ state = "Done"
    /\ data_shape = <<2, 3>> /\ bins_shape = <<2, 4>>
    /\ \E i \in 3..5 :
           /\ OutputAt(i) = EdgeCount(i)
           /\ OutputAt(i) > 0 /\ OutputAt(i) < 4
           /\ OutputAt(i) # Cardinality({j \in SegmentPositions(0) : bins[j + 1] < data0[i + 1]})
           /\ OutputAt(i) # Cardinality({j \in SegmentPositions(0) : bins[j + 1] <= data0[i + 1]})

\* some batch segment holds an adjacent pair that does not increase
HasBadPair ==
    \E b \in 0..((BinsSize \div bins_length) - 1) :
        \E k \in 0..(bins_length - 2) :
            bins[b * bins_length + k + 1] >= bins[b * bins_length + k + 2]

\* C2: when a segment of bins holds an adjacent pair bins[j] >= bins[j+1] the
\* call never gets past validation except by throwing, no kernel worker
\* starts, and the output storage (the data storage when the output shares
\* it) holds its pre-call bytes throughout.
C2_NoOutputOnBadBins ==
    HasBadPair =>
        /\ state \in {"Validating", "Failed"}
        /\ (chk = 0..(BinsSize - 1) => ~mono)
        /\ \A i \in 0..(OutSize - 1) : wpc[i] = "start"
        /\ data_mem = PreCallDataMem
        /\ out_mem = PreCallOutMem

\* an in-place call on non-increasing bins has thrown
C2_Witness ==
    /\ state = "Failed"
    /\ aliased
    /\ HasBadPair

\* what the call writes to output[i] when the output has a buffer of its own:
\* the kernel applied to the data the call was given
DistinctOutput(i) ==
    FromBytes(static_cast_OType(
                  KernelIndex(bins, i, data0[i + 1], batch_size, bins_length, right).index,
                  otype), otype)

\* C3: for every data type and output type and every interleaving, a call
\* whose output shares the data storage ends with the output values of the
\* call with a distinct output buffer.
C3_InplaceSameAsDistinct ==
    (state = "Done" /\ aliased) => \A i \in 0..(OutSize - 1) : OutputAt(i) = DistinctOutput(i)

\* the part of C3 the code does satisfy: a distinct buffer, or an output
\* element as wide as a data element
C3_SameWidthInplace ==
    (state = "Done" /\ (~aliased \/ TypeSize(otype) = TypeSize(dtype))) =>
        \A i \in 0..(OutSize - 1) : OutputAt(i) = DistinctOutput(i)

\* data[i] equals the edge at position k of its own segment
OnEdge(i, k) == data0[i + 1] = bins[BatchOf(i) * bins_length + k + 1]

\* C4 as stated: a value equal to edge k goes to bin k + 1 (right of the
\* edge) when right, and to bin k (left of the edge) when not right.
C4_EdgeGoesRightWhenRight ==
    state = "Done" =>
        \A i \in 0..(OutSize - 1) : \A k \in 0..(bins_length - 1) :
            OnEdge(i, k) => OutputAt(i) = (IF right THEN k + 1 ELSE k)

\* C4 amended: with bin j lying between edge j-1 and edge j, a value equal
\* to edge k goes to bin k (left of the edge, the interval closed on its
\* right) when right, and to bin k + 1 (right of the edge) when not right,
\* whenever that bin number is a value of the output type (at most 127 for
\* int8, 255 for uint8).
C4_EdgeGoesLeftWhenRight ==
    state = "Done" =>
        \A i \in 0..(OutSize - 1) : \A k \in 0..(bins_length - 1) :
            LET bin == IF right THEN k ELSE k + 1
            IN (OnEdge(i, k) /\ FitsOType(bin, otype)) => OutputAt(i) = bin

\* a completed call with right set whose element sits on the middle edge of three
C4_Witness ==
    /\ state = "Done"
    /\ right
    /\ bins_length = 3
    /\ \E i \in 0..(OutSize - 1) : OnEdge(i, 1) /\ OutputAt(i) = 1

\* C5 amended: a value equal to the edge at position k has k + 1 edges <=
\* value and k edges < value; the call writes the first when not right and
\* the second when right, whenever the number to write is a value of the
\* output type (at most 127 for int8, 255 for uint8); data [2] with bins
\* [1, 2, 3] gives [2] when not right and [1] when right.
C5_TieBreakIfFits ==
    state = "Done" =>
        /\ \A i \in 0..(OutSize - 1) : \A k \in 0..(bins_length - 1) :
               OnEdge(i, k) =>
                   /\ EdgesBelowOrEqual(BatchOf(i), data0[i + 1]) = k + 1
                   /\ EdgesBelow(BatchOf(i), data0[i + 1]) = k
                   /\ (~right /\ FitsOType(k + 1, otype)) => OutputAt(i) = k + 1
                   /\ (right /\ FitsOType(k, otype)) => OutputAt(i) = k
        /\ (data0 = <<2>> /\ bins = <<1, 2, 3>>) =>
               OutputAt(0) = (IF right THEN 1 ELSE 2)

\* C5 as stated: a value equal to the edge at position k gives the count of
\* edges <= value, k + 1, when not right and the count of edges < value, k,
\* when right; data [2] with bins [1, 2, 3] gives [2] when not right and [1]
\* when right.
C5_TieBreak ==
    state = "Done" =>
        /\ \A i \in 0..(OutSize - 1) : \A k \in 0..(bins_length - 1) :
               OnEdge(i, k) =>
                   /\ ~right => (OutputAt(i) = k + 1
                                   /\ EdgesBelowOrEqual(BatchOf(i), data0[i + 1]) = k + 1)
                   /\ right => (OutputAt(i) = k
                                  /\ EdgesBelow(BatchOf(i), data0[i + 1]) = k)
        /\ (data0 = <<2>> /\ bins = <<1, 2, 3>>) =>
               OutputAt(0) = (IF right THEN 1 ELSE 2)

\* the scenario of the specification, right = false
C5_Witness ==
    /\ state = "Done"
    /\ ~right
    /\ data0 = <<2>>
    /\ bins = <<1, 2, 3>>
    /\ OutputAt(0) = 2

\* C6: once every CheckMonotonicKernel::Map has returned, mono is true
\* exactly when every adjacent pair inside every segment increases strictly;
\* a pair that straddles two segments does not count, an equal pair inside a
\* segment makes it false, and segments of length 1 always pass.
C6_VerdictIffIncreasing ==
    chk = 0..(BinsSize - 1) =>
        /\ mono <=> SegmentsIncreasing
        /\ bins_length = 1 => mono
        /\ (\E j \in 0..(BinsSize - 2) :
                (j + 1) % bins_length # 0 /\ bins[j + 1] = bins[j + 2]) => ~mono

\* two segments of length 1 whose edges decrease across the boundary passed
C6_Witness ==
    /\ chk = 0..(BinsSize - 1)
    /\ BinsSize >= 2
    /\ bins_length = 1
    /\ bins[1] >= bins[2]
    /\ mono

\* bins with every edge outside batch b's segment replaced by v
OtherSegmentsSetTo(b, v) ==
    [j \in 1..BinsSize |-> IF (j - 1) \div bins_length = b THEN bins[j] ELSE v]

\* C10: with two or more batches, the worker of element i dereferences bins
\* only inside [b * bins_length, (b + 1) * bins_length), b = i / batch_size,
\* that range lies inside the bins buffer, and output[i] is what the kernel
\* gives when the edges of every other segment are replaced.
C10_OwnSegmentOnly ==
    NumBatches >= 2 =>
        \A i \in 0..(OutSize - 1) :
            wpc[i] = "done" =>
                /\ wreads[i] \subseteq SegmentPositions(BatchOf(i))
                /\ SegmentPositions(BatchOf(i)) \subseteq 0..(BinsSize - 1)
                /\ \A v \in Values :
                       OutputAt(i) =
                           FromBytes(static_cast_OType(
                               KernelIndex(OtherSegmentsSetTo(BatchOf(i), v), i,
                                           data0[i + 1], batch_size, bins_length,
                                           right).index, otype), otype)

\* two batches holding the same data value, bucketed differently by their own edges
C10_Witness ==
    /\ state = "Done"
    /\ NumBatches >= 2
    /\ data0[1] = data0[batch_size + 1]
    /\ OutputAt(0) # OutputAt(batch_size)

----------------------------------------------------------------------------
(* The flag of the validation pass. *)

\* the validator indices whose comparison found a pair out of order
Violators == {i \in chk : CheckMonotonicKernel(bins, i, bins_length)}

\* one step of the call, as the flag sees it
FlagStep ==
    /\ (~mono => ~mono')
    /\ mono_acc'.written \subseteq {FALSE}
    /\ (state' = "Validating" => mono_acc'.readers = {})
    /\ (mono_acc'.readers # mono_acc.readers =>
           /\ mono_acc'.readers = {"driver"}
           /\ chk = 0..(BinsSize - 1)
           /\ mono = SegmentsIncreasing)

\* C11: in the validation pass, under every interleaving of the validator
\* workers, the flag starts true, false is the only value ever stored to it,
\* it never goes from false back to true, no worker reads it, the driver
\* reads it only once every worker has returned, and what the driver reads
\* is fixed by bins alone, whatever the interleaving was.
C11_FlagOnlyCleared ==
    /\ (mono = TRUE /\ mono_acc = [readers |-> {}, written |-> {}])
    /\ [][FlagStep]_vars

\* the driver has read a flag that two workers cleared
C11_Witness ==
    /\ state = "Failed"
    /\ mono_acc = [readers |-> {"driver"}, written |-> {FALSE}]
    /\ Cardinality(Violators) >= 2

----------------------------------------------------------------------------
(* The stores of the compute phase. *)

\* the stores to out_data[j] so far, as (worker, position in its stores) pairs
StoresTo(j) ==
    {p \in (0..(OutSize - 1)) \X (1..OutSize) :
        p[2] <= Len(wwrites[p[1]]) /\ wwrites[p[1]][p[2]] = j}

\* C12: in the compute phase worker i stores to exactly one location,
\* output[i]; no two workers store to the same location; and when the phase
\* ends every index 0 .. output.Size() - 1 has been stored to exactly once.
C12_OneStorePerIndex ==
    /\ \A i \in 0..(OutSize - 1) :
         wwrites[i] = IF wpc[i] = "done" THEN <<i>> ELSE <<>>
    /\ \A j \in 0..(OutSize - 1) : \A p, q \in StoresTo(j) : p[1] = q[1]
    /\ (state = "Done" =>
          \A j \in 0..(OutSize - 1) : Cardinality(StoresTo(j)) = 1)

\* a call over two elements of one batch has returned
C12_Witness ==
    /\ state = "Done"
    /\ OutSize >= 2 /\ batch_size >= 2
    /\ wwrites = [i \in 0..(OutSize - 1) |-> <<i>>]

----------------------------------------------------------------------------
(* The phases of DigitizeOpForward. *)

\* every validator index has returned
ValidationComplete == chk = 0..(BinsSize - 1)

\* one step of the call, as its phases see it
PhaseStep ==
    /\ (state' # state =>
          \/ state = "Validating" /\ state' = "Computing" /\ ValidationComplete /\ mono
          \/ state = "Validating" /\ state' = "Failed" /\ ValidationComplete /\ ~mono
          \/ state = "Computing" /\ state' = "Done")
    /\ (state = "Failed" => vars' = vars)
    /\ (state # "Validating" => chk' = chk /\ mono' = mono /\ vreads' = vreads)
    /\ (chk' # chk => \E i \in (0..(BinsSize - 1)) \ chk : chk' = chk \cup {i})
    /\ (state # "Computing" =>
          /\ wpc' = wpc /\ wdata' = wdata /\ wwrites' = wwrites
          /\ out_mem' = out_mem /\ data_mem' = data_mem)

\* C13: a call goes Validating -> Computing or Validating -> Failed and no
\* other way: Computing is entered only from Validating once every
\* monotonicity check has returned with the flag true, Failed only from
\* Validating with the flag false; Failed is terminal; validation is never
\* run again; and no kernel worker starts and no output is stored before
\* Computing is entered.
C13_ValidateThenCompute == [][PhaseStep]_vars

\* a kernel worker is running after a validation of at least two indices
C13_Witness ==
    /\ state = "Computing"
    /\ Cardinality(chk) >= 2 /\ ValidationComplete /\ mono
    /\ \E i \in 0..(OutSize - 1) : wpc[i] = "loaded"

----------------------------------------------------------------------------
(* The input buffers. *)

\* one step of the call, as the input buffers see it
InputsStep ==
    /\ bins' = bins /\ bins_shape' = bins_shape
    /\ (~aliased => data_mem' = data_mem)

\* C14: no call writes the bins buffer, which holds its pre-call contents
\* during and after every call, successful or failed; and when the output
\* does not share the storage of data, no call writes the data buffer either.
C14_InputsNotWritten ==
    /\ [](~aliased => data_mem = Encode(data0, dtype))
    /\ [][InputsStep]_vars

\* a call with an output buffer of its own has stored its outputs and returned
C14_Witness ==
    /\ state = "Done" /\ ~aliased
    /\ out_mem # PreCallOutMem
    /\ data_mem = Encode(data0, dtype)

----------------------------------------------------------------------------
(* Determinism of a call. *)

\* C15: the outcome of a call with a fresh output buffer of its own, and on
\* success every byte of its output, are fixed by data, bins and right alone:
\* two such calls on the same data, bins and right end alike, both failed or
\* both with the same output, whatever the output buffers held before and
\* however the workers of either call were scheduled.
C15_SameInputsSameResult ==
    /\ (state = "Failed" => ~SegmentsIncreasing)
    /\ (state = "Done" =>
          /\ SegmentsIncreasing
          /\ Len(out_mem) = OutSize * TypeSize(otype)
          /\ \A i \in 0..(OutSize - 1) : OutputAt(i) = DistinctOutput(i))

\* a call has returned whose output buffer held zero bytes before, where the
\* other calls were given buffers of 255s
C15_Witness ==
    /\ state = "Done" /\ OutSize >= 2
    /\ fill = 0
    /\ \A i \in 0..(OutSize - 1) : OutputAt(i) = DistinctOutput(i)

----------------------------------------------------------------------------
(* The range of the stored index. *)

\* the 0-based positions of the edges of i's segment that satisfy the
\* predicate right selects: edge < data[i] when right, edge <= data[i] if not
SatisfyingEdges(i) ==
    {j \in SegmentPositions(BatchOf(i)) :
        IF right THEN bins[j + 1] < data0[i + 1] ELSE bins[j + 1] <= data0[i + 1]}

\* the index the search finds for element i
BucketIndex(i) == Cardinality(SatisfyingEdges(i))

\* output[i] is the bucket index of element i, inside [0, bins_length], at
\* its ends exactly when no edge or every edge satisfies the predicate
StoredIndexInRange(i) ==
    LET o == OutputAt(i)
    IN /\ o = BucketIndex(i)
       /\ 0 <= o /\ o <= bins_length
       /\ (o = 0 <=> SatisfyingEdges(i) = {})
       /\ (o = bins_length <=> SatisfyingEdges(i) = SegmentPositions(BatchOf(i)))

\* C16 as stated: for every output type and every bins_length, once the call
\* has completed output[i] is the bucket index, lies in [0, bins_length], is 0
\* exactly when no edge satisfies the predicate right selects and bins_length
\* exactly when every edge does.
C16_StoredIndexInRange ==
    state = "Done" => \A i \in 0..(OutSize - 1) : StoredIndexInRange(i)

\* C16, amended: the same for every output type and every bins_length that
\* is a value of the output type (at most 127 for int8, 255 for uint8).
C16_StoredIndexInRangeIfFits ==
    (state = "Done" /\ FitsOType(bins_length, otype)) =>
        \A i \in 0..(OutSize - 1) : StoredIndexInRange(i)

\* an int8 output holds 127, the index of a value above all of 127 edges
C16_Witness ==
    /\ state = "Done"
    /\ otype = kInt8 /\ bins_length = 127
    /\ SatisfyingEdges(0) = SegmentPositions(0)
    /\ OutputAt(0) = 127

----------------------------------------------------------------------------
(* The conversion of the index to the output type. *)

\* n modulo 2^w, read as a signed value when the type is signed, for the
\* width w of the output type ot (n itself for the wider types, every index
\* reached here being below 2^31)
WrapTo(n, ot) ==
    IF TypeSize(ot) > 1 THEN n
    ELSE LET m == n % 256
         IN IF TypeSigned(ot) /\ m >= 128 THEN m - 256 ELSE m

\* C18: the index, converted to uint64_t and then to the output type of width
\* w, is stored as the index modulo 2^w, read as signed for a signed type.
\* When bins_length is a value of the output type the stored value is the
\* index for every data value; when it is not (above 255 for uint8, above 127
\* for int8), a data value past every edge is stored as something else.
C18_StoredIsIndexModWidth ==
    state = "Done" =>
        \A i \in 0..(OutSize - 1) :
            /\ OutputAt(i) = WrapTo(BucketIndex(i), otype)
            /\ (FitsOType(bins_length, otype) => OutputAt(i) = BucketIndex(i))
            /\ (~FitsOType(bins_length, otype) /\ BucketIndex(i) = bins_length =>
                   OutputAt(i) # BucketIndex(i))

\* an int8 output holds -128 for the index 128
C18_Witness ==
    /\ state = "Done"
    /\ otype = kInt8 /\ bins_length = 128
    /\ BucketIndex(0) = 128
    /\ OutputAt(0) = -128

----------------------------------------------------------------------------
(* Termination. *)

\* the call has returned with every output stored, or has thrown at CHECK(mono)
Terminated ==
    \/ state = "Failed"
    \/ /\ state = "Done"
       /\ \A i \in 0..(OutSize - 1) : wpc[i] = "done" /\ wwrites[i] = <<i>>

\* C17: under fair scheduling of the workers every call ends, and stays, in
\* one of two outcomes: returned with every output stored, or failed in
\* validation. No validator index is run twice, no step waits for anything
\* but the return of a Launch, and each search dereferences at most
\* bins_length edges.
C17_CallTerminates ==
    /\ <>[]Terminated
    /\ [](\A i \in 0..(OutSize - 1) : Cardinality(wreads[i]) <= bins_length)

\* a call over the largest buffers drawn has returned
C17_Witness ==
    /\ state = "Done"
    /\ BinsSize >= 3 /\ OutSize >= 2
    /\ \A i \in 0..(OutSize - 1) : wwrites[i] = <<i>>

----------------------------------------------------------------------------
(* The reads of the validator. *)

\* the validator indices that are the last of their segment
SegmentEnds == {i \in 0..(BinsSize - 1) : \E b \in 1..BinsSize : i + 1 = b * bins_length}

\* C19: every read of the validator is inside the bins buffer. A worker i
\* that has run read bins[i] and bins[i + 1] unless i is the last index of
\* its segment, in which case it read nothing; so the last index of the
\* buffer reads nothing, with bins_length = 1 no worker reads anything, and
\* with an empty bins buffer no worker runs at all (and bins_length, then 0,
\* is never a divisor).
C19_ValidatorReadsInBounds ==
    /\ \A i \in 0..(BinsSize - 1) : vreads[i] \subseteq 0..(BinsSize - 1)
    /\ \A i \in chk : vreads[i] = IF i \in SegmentEnds THEN {} ELSE {i, i + 1}
    /\ (bins_length = 1 => \A i \in chk : vreads[i] = {})
    /\ (BinsSize = 0 => chk = {} /\ vreads = <<>>)
    /\ (state \in {"Computing", "Failed", "Done"} => chk = 0..(BinsSize - 1))

\* every worker of a three-edge validation has returned: the last read nothing
C19_Witness ==
    /\ state # "Validating"
    /\ BinsSize = 3 /\ bins_length = 3
    /\ vreads[0] = {0, 1} /\ vreads[1] = {1, 2} /\ vreads[2] = {}

----------------------------------------------------------------------------
(* Shape inference as the host calls it. *)

\* C20: when the host calls shape inference with as many input shapes as the
\* operator registers inputs, the check that exactly two input shapes are
\* present holds, and the call succeeds when the data shape is known and the
\* output shape is unknown or equal to it.
C20_RegisteredInputCountAccepted ==
    (shape_ret # "none" /\ Len(in_shapes) = num_inputs) =>
        /\ Len(in_shapes) = 2
        /\ ((Len(in_shapes[1]) > 0 /\ out_shapes[1] \in {<<>>, in_shapes[1]}) =>
               shape_ret = "true")

====
